---- MODULE Spec2Model ----
(***************************************************************************)
(* A model of src/record.rs: the record decoder of a SQLite file reader.   *)
(*                                                                         *)
(*   - ColumnType::try_from, ColumnType::size and Value::eq are pure       *)
(*     functions, modelled as operators and exercised by SpecTryFrom and   *)
(*     SpecEq.                                                             *)
(*   - Record::parse is modelled as a state machine, one action per stage  *)
(*     or loop iteration of the function body (Spec).                      *)
(*                                                                         *)
(* Bytes are the integers 0..255, a slice &[u8] is a sequence of bytes and *)
(* a String is the sequence of its UTF-8 bytes.                            *)
(***************************************************************************)
EXTENDS Integers, Sequences, FiniteSets, TLC

VARIABLES
    input,              \* parse: the `input` argument, as passed by the caller
    column_names,       \* parse: the `column_names` argument
    record_type,        \* parse: the `record_type` argument
    pc,                 \* parse: the position in the function body
    rest,               \* parse: the slice not yet consumed (`input`, then `rest`)
    row_id,             \* parse: Option<i64>
    header_size,        \* parse: the declared header size
    header_bytes_read,  \* parse: the header bytes consumed so far
    column_types,       \* parse: Vec<ColumnType>
    column,             \* parse: the index of the payload loop, 1-based
    values,             \* parse: HashMap<String, Value>
    result,             \* parse: what the caller gets back
    arg,                \* pure functions: the argument(s) of the call
    ret                 \* pure functions: the value returned

vars == <<input, column_names, record_type, pc, rest, row_id, header_size,
          header_bytes_read, column_types, column, values, result, arg, ret>>

(***************************************************************************)
(* Bounds of the model.                                                    *)
(***************************************************************************)
\* The longest payload section of a generated record, in bytes.
MaxPayload == 4
\* The largest serial-type integer handed to try_from in SpecTryFrom.
MaxTagValue == 150

(***************************************************************************)
(* Arithmetic as Rust does it.                                             *)
(***************************************************************************)
\* i64 `/`: the quotient truncated toward zero.
TruncDiv(a, b) == IF a >= 0 THEN a \div b ELSE -((-a) \div b)

\* i64 `%`: the remainder has the sign of the dividend.
TruncRem(a, b) == a - b * TruncDiv(a, b)

\* `as usize` of an i64 on a 64-bit target: negative values wrap modulo 2^64
\* (written as 65536^4: the wrapped values do not fit the model checker's
\* integers, and no integer of the bounded inputs is negative).
AsUsize(n) == IF n >= 0 THEN n ELSE n + 65536 * 65536 * 65536 * 65536

\* iN::from_be_bytes(bytes) as i64: the signed big-endian value of the bytes,
\* the first byte carrying the sign.
RECURSIVE BeUnsigned(_)
BeUnsigned(bytes) ==
    IF bytes = <<>> THEN 0
    ELSE BeUnsigned(SubSeq(bytes, 1, Len(bytes) - 1)) * 256 + bytes[Len(bytes)]

RECURSIVE Pow256(_)
Pow256(k) == IF k = 0 THEN 1 ELSE 256 * Pow256(k - 1)

from_be_bytes(bytes) ==
    (IF bytes[1] >= 128 THEN bytes[1] - 256 ELSE bytes[1]) * Pow256(Len(bytes) - 1)
        + BeUnsigned(Tail(bytes))

(***************************************************************************)
(* ColumnType                                                              *)
(***************************************************************************)
Unit(t) == [type |-> t, len |-> 0]
Blob(n) == [type |-> "Blob", len |-> n]
Text(n) == [type |-> "Text", len |-> n]

\* Result<ColumnType, anyhow::Error>
TagOk(t)   == [ok |-> TRUE, type |-> t, error |-> ""]
TagErr(e)  == [ok |-> FALSE, type |-> Unit("Null"), error |-> e]

\* A mutant of try_from: the parity test is inverted, so that the even tags
\* give Text and the odd ones Blob.
try_from_parity(value) ==
    CASE value = 0 -> TagOk(Unit("Null"))
      [] value = 1 -> TagOk(Unit("I8"))
      [] value = 2 -> TagOk(Unit("I16"))
      [] value = 3 -> TagOk(Unit("I24"))
      [] value = 4 -> TagOk(Unit("I32"))
      [] value = 5 -> TagOk(Unit("I48"))
      [] value = 6 -> TagOk(Unit("I64"))
      [] value = 7 -> TagOk(Unit("F64"))
      [] value = 8 -> TagOk(Unit("Zero"))
      [] value = 9 -> TagOk(Unit("One"))
      [] value \in {10, 11} -> TagErr("invalid column type")
      [] OTHER ->
            IF TruncRem(value, 2) # 0
            THEN TagOk(Blob(AsUsize(TruncDiv(value - 12, 2))))
            ELSE TagOk(Text(AsUsize(TruncDiv(value - 13, 2))))

\* impl TryFrom<i64> for ColumnType
try_from(value) ==
    CASE value = 0 -> TagOk(Unit("Null"))
      [] value = 1 -> TagOk(Unit("I8"))
      [] value = 2 -> TagOk(Unit("I16"))
      [] value = 3 -> TagOk(Unit("I24"))
      [] value = 4 -> TagOk(Unit("I32"))
      [] value = 5 -> TagOk(Unit("I48"))
      [] value = 6 -> TagOk(Unit("I64"))
      [] value = 7 -> TagOk(Unit("F64"))
      [] value = 8 -> TagOk(Unit("Zero"))
      [] value = 9 -> TagOk(Unit("One"))
      [] value \in {10, 11} -> TagErr("invalid column type")
      [] OTHER ->
            IF TruncRem(value, 2) = 0
            THEN TagOk(Blob(AsUsize(TruncDiv(value - 12, 2))))
            ELSE TagOk(Text(AsUsize(TruncDiv(value - 13, 2))))

\* ColumnType::size
size(column_type) ==
    CASE column_type.type = "Null" -> 0
      [] column_type.type = "I8"   -> 1
      [] column_type.type = "I16"  -> 2
      [] column_type.type = "I24"  -> 3
      [] column_type.type = "I32"  -> 4
      [] column_type.type = "I48"  -> 6
      [] column_type.type = "I64"  -> 8
      [] column_type.type = "F64"  -> 8
      [] column_type.type = "Zero" -> 0
      [] column_type.type = "One"  -> 0
      [] column_type.type \in {"Blob", "Text"} -> column_type.len

(***************************************************************************)
(* Value                                                                   *)
(***************************************************************************)
\* Integer holds an i64, Real a float (by name: see F64Eq), Text and Blob the
\* bytes of a String.
Null       == [type |-> "Null", n |-> 0, f |-> "", s |-> <<>>]
Integer(n) == [type |-> "Integer", n |-> n, f |-> "", s |-> <<>>]
Real(f)    == [type |-> "Real", n |-> 0, f |-> f, s |-> <<>>]
TextV(s)   == [type |-> "Text", n |-> 0, f |-> "", s |-> s]
BlobV(s)   == [type |-> "Blob", n |-> 0, f |-> "", s |-> s]

\* f64 `==`: NaN equals nothing, the two zeros are equal.
F64Eq(f1, f2) ==
    /\ f1 # "NaN"
    /\ f2 # "NaN"
    /\ \/ f1 = f2
       \/ {f1, f2} = {"0.0", "-0.0"}

\* A mutant of eq: the derived equality, under which Null equals Null and a
\* Text never equals a Blob.
eq_derived(self, other) ==
    /\ self.type = other.type
    /\ CASE self.type = "Null"    -> TRUE
         [] self.type = "Integer" -> self.n = other.n
         [] self.type = "Real"    -> F64Eq(self.f, other.f)
         [] OTHER                 -> self.s = other.s

\* impl PartialEq for Value
eq(self, other) ==
    CASE self.type = "Null" -> FALSE
      [] self.type = "Integer" ->
            IF other.type = "Integer" THEN self.n = other.n ELSE FALSE
      [] self.type = "Real" ->
            IF other.type = "Real" THEN F64Eq(self.f, other.f) ELSE FALSE
      [] self.type = "Text" ->
            CASE other.type = "Text" -> self.s = other.s
              [] other.type = "Blob" -> self.s = other.s
              [] OTHER -> FALSE
      [] self.type = "Blob" ->
            CASE other.type = "Text" -> self.s = other.s
              [] other.type = "Blob" -> self.s = other.s
              [] OTHER -> FALSE

(***************************************************************************)
(* Library functions the decoder calls.                                    *)
(***************************************************************************)
\* crate::varint::varint: the file format's variable-length integer. The
\* first eight bytes give seven bits each, the high bit of a byte saying
\* that another byte follows; a ninth byte gives all eight of its bits.
\* The number of bytes the encoding at the front of `i` takes, 0 when `i`
\* ends before the encoding does.
RECURSIVE VarintLen(_, _)
VarintLen(i, k) ==
    IF k > Len(i) THEN 0
    ELSE IF k = 9 \/ i[k] < 128 THEN k
    ELSE VarintLen(i, k + 1)

\* The value of the first n bytes of `i` read as one encoding.
RECURSIVE VarintValue(_, _)
VarintValue(i, n) ==
    IF n = 0 THEN 0
    ELSE IF n = 9 THEN VarintValue(i, 8) * 256 + i[9]
    ELSE VarintValue(i, n - 1) * 128 + (i[n] % 128)

\* IResult<&[u8], i64>
varint(i) ==
    LET n == VarintLen(i, 1) IN
    IF n = 0
    THEN [ok |-> FALSE, rest |-> <<>>, value |-> 0]
    ELSE [ok |-> TRUE, rest |-> SubSeq(i, n + 1, Len(i)), value |-> VarintValue(i, n)]

\* A mutant of take: a short input is filled up with zero bytes instead of
\* being refused.
take_zero_filled(count, i) ==
    IF Len(i) < count
    THEN [ok |-> TRUE, rest |-> <<>>,
          bytes |-> [k \in 1..count |-> IF k <= Len(i) THEN i[k] ELSE 0]]
    ELSE [ok |-> TRUE, rest |-> SubSeq(i, count + 1, Len(i)), bytes |-> SubSeq(i, 1, count)]

\* nom::bytes::complete::take(count)(i), as parse calls it: the first `count`
\* bytes and the rest, or Err(Error(Eof)) when fewer are left.
take(count, i) ==
    IF Len(i) < count
    THEN [ok |-> FALSE, rest |-> <<>>, bytes |-> <<>>]
    ELSE [ok |-> TRUE, rest |-> SubSeq(i, count + 1, Len(i)), bytes |-> SubSeq(i, 1, count)]

\* nom::number::complete::i8(i), as parse calls it: one byte read as an i8.
i8(i) ==
    IF Len(i) < 1
    THEN [ok |-> FALSE, rest |-> <<>>, value |-> 0]
    ELSE [ok |-> TRUE, rest |-> Tail(i), value |-> from_be_bytes(<<i[1]>>)]

\* std::str::from_utf8(bytes).is_ok(): the bytes are well-formed UTF-8.
Cont(bytes, k) == k <= Len(bytes) /\ bytes[k] \in 128..191
In(bytes, k, lo, hi) == k <= Len(bytes) /\ bytes[k] \in lo..hi

RECURSIVE Utf8From(_, _)
Utf8From(bytes, k) ==
    IF k > Len(bytes) THEN TRUE
    ELSE LET b == bytes[k] IN
      CASE b < 128 -> Utf8From(bytes, k + 1)
        [] b \in 194..223 -> Cont(bytes, k + 1) /\ Utf8From(bytes, k + 2)
        [] b = 224 -> In(bytes, k + 1, 160, 191) /\ Cont(bytes, k + 2) /\ Utf8From(bytes, k + 3)
        [] b \in (225..236) \cup (238..239) ->
              Cont(bytes, k + 1) /\ Cont(bytes, k + 2) /\ Utf8From(bytes, k + 3)
        [] b = 237 -> In(bytes, k + 1, 128, 159) /\ Cont(bytes, k + 2) /\ Utf8From(bytes, k + 3)
        [] b = 240 ->
              In(bytes, k + 1, 144, 191) /\ Cont(bytes, k + 2) /\ Cont(bytes, k + 3)
                  /\ Utf8From(bytes, k + 4)
        [] b \in 241..243 ->
              Cont(bytes, k + 1) /\ Cont(bytes, k + 2) /\ Cont(bytes, k + 3)
                  /\ Utf8From(bytes, k + 4)
        [] b = 244 ->
              In(bytes, k + 1, 128, 143) /\ Cont(bytes, k + 2) /\ Cont(bytes, k + 3)
                  /\ Utf8From(bytes, k + 4)
        [] OTHER -> FALSE

from_utf8_is_ok(bytes) == Utf8From(bytes, 1)

(***************************************************************************)
(* Record::parse: the arms of the match on a column's type.  Each gives    *)
(* the slice left and the value inserted, or the error returned by `?`, or *)
(* the panic raised.                                                       *)
(***************************************************************************)
None    == [some |-> FALSE, n |-> 0]
Some(n) == [some |-> TRUE, n |-> n]

Inserted(r, v) == [status |-> "insert", rest |-> r, value |-> v, msg |-> ""]
Failed(code)   == [status |-> "err", rest |-> <<>>, value |-> Null, msg |-> code]
Panicked(m)    == [status |-> "panic", rest |-> <<>>, value |-> Null, msg |-> m]

\* A mutant of DecodeNull: the row identifier is used whatever the column's name.
DecodeNull_anyName(column_name, i) ==
    IF record_type = "Table"
    THEN IF row_id.some
         THEN Inserted(i, Integer(row_id.n))
         ELSE Panicked("called Option::unwrap() on a None value")
    ELSE Inserted(i, Null)

\* ColumnType::Null
DecodeNull(column_name, i) ==
    IF record_type = "Table" /\ column_name = "id"
    THEN IF row_id.some
         THEN Inserted(i, Integer(row_id.n))
         ELSE Panicked("called Option::unwrap() on a None value")
    ELSE Inserted(i, Null)

\* ColumnType::I8
DecodeI8(i) ==
    LET r == i8(i) IN
    IF r.ok THEN Inserted(r.rest, Integer(r.value)) ELSE Failed("Eof")

\* ColumnType::I16
DecodeI16(i) ==
    LET r == take(2, i) IN
    IF r.ok
    THEN Inserted(r.rest, Integer(from_be_bytes(<<r.bytes[1], r.bytes[2]>>)))
    ELSE Failed("Eof")

\* A mutant of DecodeI24: the three bytes are sign-extended.
DecodeI24_signed(i) ==
    LET r == take(3, i) IN
    IF r.ok
    THEN Inserted(r.rest, Integer(from_be_bytes(<<r.bytes[1], r.bytes[2], r.bytes[3]>>)))
    ELSE Failed("Eof")

\* A mutant of DecodeI24: four bytes are taken.
DecodeI24_take4(i) ==
    LET r == take(4, i) IN
    IF r.ok
    THEN Inserted(r.rest, Integer(from_be_bytes(<<0, r.bytes[1], r.bytes[2], r.bytes[3]>>)))
    ELSE Failed("Eof")

\* ColumnType::I24
DecodeI24(i) ==
    LET r == take(3, i) IN
    IF r.ok
    THEN Inserted(r.rest, Integer(from_be_bytes(<<0, r.bytes[1], r.bytes[2], r.bytes[3]>>)))
    ELSE Failed("Eof")

\* ColumnType::I32
DecodeI32(i) ==
    LET r == take(4, i) IN
    IF r.ok
    THEN Inserted(r.rest,
                  Integer(from_be_bytes(<<r.bytes[1], r.bytes[2], r.bytes[3], r.bytes[4]>>)))
    ELSE Failed("Eof")

\* ColumnType::I48, I64, F64: todo!()
DecodeTodo(what) == Panicked("not yet implemented: " \o what)

\* ColumnType::Zero
DecodeZero(i) == Inserted(i, Integer(0))

\* A mutant of DecodeOne: the constant one.
DecodeOne_one(i) == Inserted(i, Integer(1))

\* ColumnType::One
DecodeOne(i) == Inserted(i, Integer(0))

\* ColumnType::Blob(size)
DecodeBlob(len, i) ==
    LET r == take(len, i) IN
    IF ~r.ok THEN Failed("Eof")
    ELSE IF ~from_utf8_is_ok(r.bytes) THEN Panicked("non utf-8 text")
    ELSE Inserted(r.rest, BlobV(r.bytes))

\* ColumnType::Text(size)
DecodeText(len, i) ==
    LET r == take(len, i) IN
    IF ~r.ok THEN Failed("Eof")
    ELSE IF ~from_utf8_is_ok(r.bytes) THEN Panicked("non utf-8 text")
    ELSE Inserted(r.rest, TextV(r.bytes))

\* match column_type { ... }
DecodeColumn(column_type, column_name, i) ==
    CASE column_type.type = "Null" -> DecodeNull(column_name, i)
      [] column_type.type = "I8"   -> DecodeI8(i)
      [] column_type.type = "I16"  -> DecodeI16(i)
      [] column_type.type = "I24"  -> DecodeI24(i)
      [] column_type.type = "I32"  -> DecodeI32(i)
      [] column_type.type = "I48"  -> DecodeTodo("i48 column")
      [] column_type.type = "I64"  -> DecodeTodo("i64 column")
      [] column_type.type = "F64"  -> DecodeTodo("f64 column")
      [] column_type.type = "Zero" -> DecodeZero(i)
      [] column_type.type = "One"  -> DecodeOne(i)
      [] column_type.type = "Blob" -> DecodeBlob(column_type.len, i)
      [] column_type.type = "Text" -> DecodeText(column_type.len, i)

\* HashMap::new() and HashMap::insert
EmptyMap == [k \in {} |-> Null]
insert(map, k, v) == [x \in DOMAIN map \cup {k} |-> IF x = k THEN v ELSE map[x]]

(***************************************************************************)
(* The inputs of the model.  A record is laid out as a writer lays it out  *)
(* (row identifier, header size, one tag per column, payload), with some   *)
(* of the pieces wrong: a header size off by one or padded to two bytes,   *)
(* a reserved tag, more or fewer tags than column names, a short payload.  *)
(***************************************************************************)
RecordTypes == {"Table", "Index"}

ColumnNameLists == {<<"key">>, <<"id", "name">>, <<"name", "id">>}

\* The row identifiers 7 and 128, as varints; an Index record has none.
RowIdEncodings(rt) == IF rt = "Table" THEN {<<7>>, <<129, 0>>} ELSE {<<>>}

\* The tags 0..9, the reserved 11, Text(3), Blob(4), and I8 padded to two bytes.
TagEncodings ==
    {<<t>> : t \in 0..9} \cup {<<11>>, <<19>>, <<20>>, <<128, 1>>}

TagLists ==
    {<<>>} \cup {<<a>> : a \in TagEncodings}
           \cup {<<a, b>> : a \in TagEncodings, b \in TagEncodings}

RECURSIVE Flatten(_)
Flatten(seqs) == IF seqs = <<>> THEN <<>> ELSE Head(seqs) \o Flatten(Tail(seqs))

\* For n bytes of tags: the right size, one more, one less, and the right
\* size in a padded two-byte varint.
HeaderSizeEncodings(n) == {<<n + 1>>, <<n + 2>>, <<n>>, <<128, n + 2>>}

\* "bob" and 0xFF; bytes with the high bit set and small ones; U+00E9 and DEL.
PayloadPatterns == {<<98, 111, 98, 255>>, <<255, 128, 0, 1>>, <<195, 169, 127>>}

Repeat(p, n) == [k \in 1..n |-> p[((k - 1) % Len(p)) + 1]]

Payloads == {Repeat(p, n) : p \in PayloadPatterns, n \in 0..MaxPayload}

Inputs(rt) ==
    UNION { UNION { { r \o h \o Flatten(tags) \o p : h \in HeaderSizeEncodings(Len(Flatten(tags))) }
                    : tags \in TagLists }
            : <<r, p>> \in RowIdEncodings(rt) \X Payloads }

(***************************************************************************)
(* Record::parse                                                           *)
(***************************************************************************)
Running == [kind |-> "None"]
Ok(r, v) == [kind |-> "Ok", rest |-> r, values |-> v]
Err(code) == [kind |-> "Err", code |-> code]
Panic(msg) == [kind |-> "Panic", msg |-> msg]

Init ==
    /\ record_type \in RecordTypes
    /\ column_names \in ColumnNameLists
    /\ input \in Inputs(record_type)
    /\ pc = "row_id"
    /\ rest = input
    /\ row_id = None
    /\ header_size = 0
    /\ header_bytes_read = 0
    /\ column_types = <<>>
    /\ column = 0
    /\ values = EmptyMap
    /\ result = Running
    /\ arg = "none"
    /\ ret = "none"

\* The function returns: `?` on an Err, or a panic unwinding.
Stop(r) ==
    /\ result' = r
    /\ pc' = "done"

\* let (input, row_id) = if record_type == RecordType::Table { ... }
ParseRowId ==
    /\ pc = "row_id"
    /\ IF record_type = "Table"
       THEN LET r == varint(rest) IN
            IF r.ok
            THEN /\ rest' = r.rest
                 /\ row_id' = Some(r.value)
                 /\ pc' = "header_size"
                 /\ UNCHANGED result
            ELSE /\ Stop(Err("Eof"))
                 /\ UNCHANGED <<rest, row_id>>
       ELSE /\ pc' = "header_size"
            /\ UNCHANGED <<rest, row_id, result>>
    /\ UNCHANGED <<input, column_names, record_type, header_size, header_bytes_read,
                   column_types, column, values, arg, ret>>

\* A mutant of ParseHeaderSize: the size field's own bytes are not counted.
ParseHeaderSize_uncounted ==
    /\ pc = "header_size"
    /\ LET r == varint(rest) IN
       IF r.ok
       THEN /\ rest' = r.rest
            /\ header_size' = r.value
            /\ header_bytes_read' = 0
            /\ pc' = "column_types"
            /\ UNCHANGED result
       ELSE /\ Stop(Err("Eof"))
            /\ UNCHANGED <<rest, header_size, header_bytes_read>>
    /\ UNCHANGED <<input, column_names, record_type, row_id, column_types, column,
                   values, arg, ret>>

\* let (input, header_size) = varint(input)?;
ParseHeaderSize ==
    /\ pc = "header_size"
    /\ LET before_input_len == Len(rest)
           r == varint(rest)
       IN
       IF r.ok
       THEN /\ rest' = r.rest
            /\ header_size' = r.value
            /\ header_bytes_read' = 0 + (before_input_len - Len(r.rest))
            /\ pc' = "column_types"
            /\ UNCHANGED result
       ELSE /\ Stop(Err("Eof"))
            /\ UNCHANGED <<rest, header_size, header_bytes_read>>
    /\ UNCHANGED <<input, column_names, record_type, row_id, column_types, column,
                   values, arg, ret>>

\* for _ in 0..column_names.len() { ... }: one iteration
ParseColumnType ==
    /\ pc = "column_types"
    /\ Len(column_types) < Len(column_names)
    /\ LET r == varint(rest) IN
       IF ~r.ok
       THEN /\ Stop(Err("Eof"))
            /\ UNCHANGED <<rest, header_bytes_read, column_types>>
       ELSE LET column_type == try_from(r.value) IN
            /\ header_bytes_read' = header_bytes_read + (Len(rest) - Len(r.rest))
            /\ rest' = r.rest
            /\ IF column_type.ok
               THEN /\ column_types' = Append(column_types, column_type.type)
                    /\ UNCHANGED <<pc, result>>
               ELSE /\ Stop(Panic("invalid column type: " \o column_type.error))
                    /\ UNCHANGED column_types
    /\ UNCHANGED <<input, column_names, record_type, row_id, header_size, column,
                   values, arg, ret>>

\* A mutant of AssertHeaderSize: the assertion is not made before the payload.
AssertHeaderSize_skipped ==
    /\ pc = "column_types"
    /\ Len(column_types) = Len(column_names)
    /\ pc' = "columns"
    /\ values' = EmptyMap
    /\ column' = 1
    /\ UNCHANGED <<input, column_names, record_type, rest, row_id, header_size,
                   header_bytes_read, column_types, result, arg, ret>>

\* assert_eq!(header_bytes_read, header_size as usize); let mut values = HashMap::new();
AssertHeaderSize ==
    /\ pc = "column_types"
    /\ Len(column_types) = Len(column_names)
    /\ IF header_bytes_read = AsUsize(header_size)
       THEN /\ pc' = "columns"
            /\ values' = EmptyMap
            /\ column' = 1
            /\ UNCHANGED result
       ELSE /\ Stop(Panic("assertion left == right failed"))
            /\ UNCHANGED <<values, column>>
    /\ UNCHANGED <<input, column_names, record_type, rest, row_id, header_size,
                   header_bytes_read, column_types, arg, ret>>

\* for (column_name, column_type) in column_names.iter().zip(column_types.iter()):
\* one iteration
ParseColumn ==
    /\ pc = "columns"
    /\ column <= Len(column_names)
    /\ LET d == DecodeColumn(column_types[column], column_names[column], rest) IN
       CASE d.status = "insert" ->
                /\ values' = insert(values, column_names[column], d.value)
                /\ rest' = d.rest
                /\ column' = column + 1
                /\ UNCHANGED <<pc, result>>
         [] d.status = "err" ->
                /\ Stop(Err(d.msg))
                /\ UNCHANGED <<values, rest, column>>
         [] d.status = "panic" ->
                /\ Stop(Panic(d.msg))
                /\ UNCHANGED <<values, rest, column>>
    /\ UNCHANGED <<input, column_names, record_type, row_id, header_size,
                   header_bytes_read, column_types, arg, ret>>

\* Ok((rest, Record { values }))
Return ==
    /\ pc = "columns"
    /\ column > Len(column_names)
    /\ Stop(Ok(rest, values))
    /\ UNCHANGED <<input, column_names, record_type, rest, row_id, header_size,
                   header_bytes_read, column_types, column, values, arg, ret>>

Next ==
    \/ ParseRowId
    \/ ParseHeaderSize
    \/ ParseColumnType
    \/ AssertHeaderSize
    \/ ParseColumn
    \/ Return

Spec == Init /\ [][Next]_vars

(***************************************************************************)
(* The pure functions, each applied to inputs drawn from bounded sets.     *)
(***************************************************************************)
Idle ==
    /\ input = <<>>
    /\ column_names = <<>>
    /\ record_type = "Index"
    /\ rest = <<>>
    /\ row_id = None
    /\ header_size = 0
    /\ header_bytes_read = 0
    /\ column_types = <<>>
    /\ column = 0
    /\ values = EmptyMap
    /\ result = Running

InitTryFrom ==
    /\ Idle
    /\ pc = "call"
    /\ arg \in 0..MaxTagValue
    /\ ret = "none"

CallTryFrom ==
    /\ pc = "call"
    /\ ret' = try_from(arg)
    /\ pc' = "returned"
    /\ UNCHANGED <<input, column_names, record_type, rest, row_id, header_size,
                   header_bytes_read, column_types, column, values, result, arg>>

NextTryFrom == CallTryFrom

SpecTryFrom == InitTryFrom /\ [][NextTryFrom]_vars

\* The longest string of a sampled Text or Blob, and the largest sampled integer.
MaxStr == 3
MaxInteger == 5

\* The strings over "a" and "b".
Strings == UNION {[1..n -> {97, 98}] : n \in 0..MaxStr}

ValueSamples ==
    {Null}
        \cup {Integer(n) : n \in -1..MaxInteger}
        \cup {Real(f) : f \in {"5.0", "0.0", "-0.0", "NaN"}}
        \cup {TextV(s) : s \in Strings}
        \cup {BlobV(s) : s \in Strings}

InitEq ==
    /\ Idle
    /\ pc = "call"
    /\ arg \in ValueSamples \X ValueSamples
    /\ ret = "none"

CallEq ==
    /\ pc = "call"
    /\ ret' = eq(arg[1], arg[2])
    /\ pc' = "returned"
    /\ UNCHANGED <<input, column_names, record_type, rest, row_id, header_size,
                   header_bytes_read, column_types, column, values, result, arg>>

NextEq == CallEq

SpecEq == InitEq /\ [][NextEq]_vars

(***************************************************************************)
(* The layout of the record in `input`, read off the bytes themselves.     *)
(***************************************************************************)
N == Len(column_names)

\* The bytes of the row identifier's varint (0 when it does not decode).
RowIdLen == IF record_type = "Table" THEN VarintLen(input, 1) ELSE 0

AfterRowId == SubSeq(input, RowIdLen + 1, Len(input))

\* The bytes of the header-size varint (0 when it does not decode), and its value.
HeaderSizeLen == VarintLen(AfterRowId, 1)
DeclaredHeaderSize == VarintValue(AfterRowId, HeaderSizeLen)

\* The first n varints at the front of s, each with its byte length and its
\* value, up to the first that does not decode.
RECURSIVE Varints(_, _)
Varints(s, n) ==
    IF n = 0 \/ VarintLen(s, 1) = 0 THEN <<>>
    ELSE LET l == VarintLen(s, 1) IN
         <<[len |-> l, value |-> VarintValue(s, l)]>> \o Varints(SubSeq(s, l + 1, Len(s)), n - 1)

Tags == Varints(SubSeq(AfterRowId, HeaderSizeLen + 1, Len(AfterRowId)), N)

RECURSIVE SumLen(_)
SumLen(fields) == IF fields = <<>> THEN 0 ELSE Head(fields).len + SumLen(Tail(fields))

\* The row identifier, the header size and all N tags decode and resolve.
HeaderDecodes ==
    /\ record_type = "Table" => RowIdLen > 0
    /\ HeaderSizeLen > 0
    /\ Len(Tags) = N
    /\ \A k \in 1..Len(Tags) : Tags[k].value \notin {10, 11}

\* The bytes of the header: the size field and the N tags.
HeaderLen == HeaderSizeLen + SumLen(Tags)

\* The payload bytes a column of this type takes.
PayloadSize(column_type) ==
    CASE column_type.type = "I8"  -> 1
      [] column_type.type = "I16" -> 2
      [] column_type.type = "I24" -> 3
      [] column_type.type = "I32" -> 4
      [] column_type.type \in {"Blob", "Text"} -> column_type.len
      [] OTHER -> 0

RECURSIVE PayloadBefore(_)
PayloadBefore(k) ==
    IF k <= 1 THEN 0 ELSE PayloadBefore(k - 1) + PayloadSize(column_types[k - 1])

\* The bytes of column k, given that the header is as long as it declares.
Range(k) ==
    LET from == RowIdLen + DeclaredHeaderSize + PayloadBefore(k) IN
    SubSeq(input, from + 1, from + PayloadSize(column_types[k]))

\* The columns whose values have been inserted.
Decoded == 1..(column - 1)

\* parse failed on the assertion of the header size.
SizeMismatch ==
    /\ pc = "done"
    /\ result.kind = "Panic"
    /\ result.msg = "assertion left == right failed"

Succeeded == pc = "done" /\ result.kind = "Ok"

\* parse stopped at column `column` of the payload.
StoppedAtColumn == pc = "done" /\ result.kind # "Ok" /\ column \in 1..N

(***************************************************************************)
(* The claims.                                                             *)
(***************************************************************************)
FixedTypes == <<"Null", "I8", "I16", "I24", "I32", "I48", "I64", "F64", "Zero", "One">>

\* C1: try_from fails, with the invalid-type error, exactly on 10 and 11; on
\* 0..9 it gives the ten fixed variants in order, on an even v >= 12 Blob of
\* length (v-12)/2 and on an odd v >= 13 Text of length (v-13)/2.
C1_TryFromTotalButReserved ==
    pc = "returned" =>
        /\ ret.ok <=> arg \notin {10, 11}
        /\ ~ret.ok => ret.error = "invalid column type"
        /\ arg \in 0..9 => ret.type = Unit(FixedTypes[arg + 1])
        /\ (arg >= 12 /\ arg % 2 = 0) =>
              /\ ret.type.type = "Blob"
              /\ 2 * ret.type.len + 12 = arg
        /\ (arg >= 13 /\ arg % 2 = 1) =>
              /\ ret.type.type = "Text"
              /\ 2 * ret.type.len + 13 = arg

C1_Witness == pc = "returned" /\ arg = 11 /\ ~ret.ok

\* C2: when the row identifier, the header size and the N tags decode and
\* resolve, parse fails on the size assertion if and only if the bytes of the
\* header-size varint plus the bytes of the N tag varints differ from the
\* declared header size; when they are equal, parse goes on to the payload.
C2_SizeMismatchIff ==
    (HeaderDecodes /\ pc \in {"columns", "done"}) =>
        /\ SizeMismatch <=> HeaderLen # DeclaredHeaderSize
        /\ HeaderLen = DeclaredHeaderSize => column >= 1

C2_Witness == HeaderDecodes /\ SizeMismatch /\ HeaderSizeLen = 2

ScenarioA ==
    /\ record_type = "Table"
    /\ column_names = <<"id", "name">>
    /\ input = <<7, 3, 0, 19, 98, 111, 98>>

C4_TruncatedPayloadIsError ==
    [][(/\ pc = "columns"
        /\ column <= N
        /\ Len(rest) < PayloadSize(column_types[column]))
          => (pc' = "done" /\ result' = Err("Eof"))]_vars

C4_Witness ==
    /\ StoppedAtColumn
    /\ column_types[column] = Blob(4)
    /\ Len(rest) \in 1..3
    /\ result.kind = "Err"

\* C5: a column of type I48, I64 or F64 makes parse return an error to its
\* caller.
C5_UnsupportedIsError ==
    (StoppedAtColumn /\ column_types[column].type \in {"I48", "I64", "F64"}) =>
        result.kind = "Err"

TextLike == {"Text", "Blob"}

\* C6: Null equals nothing, on either side; two text-like values are equal
\* exactly when their strings are; an Integer equals exactly the Integers of
\* the same number; no text-like value equals an Integer or a Real.
C6_ValueEquality ==
    pc = "returned" =>
        LET a == arg[1]
            b == arg[2]
        IN
        /\ (a.type = "Null" \/ b.type = "Null") => ret = FALSE
        /\ (a.type \in TextLike /\ b.type \in TextLike) => (ret <=> a.s = b.s)
        /\ a.type = "Integer" => (ret <=> (b.type = "Integer" /\ a.n = b.n))
        /\ b.type = "Integer" => (ret <=> (a.type = "Integer" /\ a.n = b.n))
        /\ (a.type \in TextLike /\ b.type \in {"Integer", "Real"}) => ret = FALSE
        /\ (a.type \in {"Integer", "Real"} /\ b.type \in TextLike) => ret = FALSE

C6_Witness ==
    /\ pc = "returned"
    /\ arg = <<TextV(<<97, 98, 98>>), BlobV(<<97, 98, 98>>)>>
    /\ ret = TRUE

\* C7: the size assertion fails after all N tags are decoded and before any
\* payload byte is read or any value produced, and the payload is decoded
\* only once the assertion has passed.
C7_SizeCheckBeforePayload ==
    /\ SizeMismatch =>
          /\ Len(column_types) = N
          /\ values = EmptyMap
          /\ column = 0
          /\ Len(input) - Len(rest) = RowIdLen + HeaderLen
    /\ column >= 1 =>
          /\ header_bytes_read = header_size
          /\ HeaderLen = DeclaredHeaderSize

C7_Witness ==
    /\ SizeMismatch
    /\ N = 2
    /\ DeclaredHeaderSize = HeaderLen + 1
    /\ Len(rest) = MaxPayload

\* n is the two's-complement value of the big-endian bytes, sign-extended.
TwosComplement(n, bytes) ==
    LET w == Len(bytes) IN
    /\ \A k \in 0..(w - 1) : (n \div Pow256(k)) % 256 = bytes[w - k]
    /\ (n \div Pow256(w - 1)) \in -128..127

\* C8: an I8, I16 or I32 column decodes to the big-endian two's-complement
\* value of its 1, 2 or 4 bytes, sign-extended; an I24 column decodes to its
\* three bytes read big-endian under a zero high byte, a value of 0..2^24-1.
C8_FixedWidthIntegers ==
    \A k \in Decoded :
        LET v == values[column_names[k]] IN
        /\ column_types[k].type \in {"I8", "I16", "I32"} =>
              /\ v.type = "Integer"
              /\ TwosComplement(v.n, Range(k))
        /\ column_types[k].type = "I24" =>
              /\ v.type = "Integer"
              /\ TwosComplement(v.n, <<0>> \o Range(k))
              /\ v.n \in 0..16777215

C8_Witness ==
    /\ Succeeded
    /\ column_types = <<Unit("I8"), Unit("I24")>>
    /\ Range(1) = <<255>>
    /\ values[column_names[1]] = Integer(-1)
    /\ Range(2) = <<128, 0, 1>>
    /\ values[column_names[2]] = Integer(8388609)

RECURSIVE SumSize(_)
SumSize(types) == IF types = <<>> THEN 0 ELSE size(Head(types)) + SumSize(Tail(types))

\* C9: on success the remainder is the input without its first (bytes of the
\* row identifier) + (declared header size) + (sum of the columns' payload
\* sizes) bytes, and each column's value is the one decoded from exactly its
\* own range of bytes.
C9_RemainderAndRanges ==
    Succeeded =>
        LET total == RowIdLen + DeclaredHeaderSize + SumSize(column_types) IN
        /\ Len(column_types) = N
        /\ result.rest = SubSeq(input, total + 1, Len(input))
        /\ total <= Len(input)
        /\ DOMAIN result.values = {column_names[k] : k \in 1..N}
        /\ \A k \in 1..N :
              LET d == DecodeColumn(column_types[k], column_names[k], Range(k)) IN
              /\ size(column_types[k]) = PayloadSize(column_types[k])
              /\ d.status = "insert"
              /\ d.rest = <<>>
              /\ result.values[column_names[k]] = d.value

C9_Witness ==
    /\ Succeeded
    /\ RowIdLen = 2
    /\ N = 2
    /\ \A k \in 1..N : size(column_types[k]) > 0
    /\ result.rest # <<>>

\* C10: a Zero column and a One column both decode to Integer(0), and neither
\* takes a payload byte: what has been consumed is the header and the payload
\* of the other columns.
C10_ConstantsAreZero ==
    column >= 1 =>
        /\ \A k \in Decoded :
              column_types[k].type \in {"Zero", "One"} =>
                  values[column_names[k]] = Integer(0)
        /\ Len(input) - Len(rest) = RowIdLen + HeaderLen + PayloadBefore(column)

C10_Witness ==
    /\ Succeeded
    /\ column_types = <<Unit("Zero"), Unit("One")>>
    /\ values[column_names[1]] = Integer(0)
    /\ values[column_names[2]] = Integer(0)
    /\ Len(result.rest) = MaxPayload

====
